---------------------------- MODULE Spec2Model ----------------------------
(***************************************************************************)
(* Model of the MAVLink JSON metadata generator:                           *)
(*   tools/mavlink_json_generator/crc_calculator.py  (CRC-16/MCRF4XX,      *)
(*       type strings, field ordering, crc_extra, field offsets)           *)
(*   tools/mavlink_json_generator/generator.py       (recursive include    *)
(*       resolution and merge of message / enum dictionaries)              *)
(*                                                                         *)
(* A Python str is a sequence of characters, each character a one-letter   *)
(* TLA+ string (non-printable ones are written "\\x80" and so on).  A      *)
(* call that returns is [val |-> v]; a call that raises is                 *)
(* [raised |-> "ValueError"].                                              *)
(***************************************************************************)
EXTENDS Integers, Sequences, FiniteSets, TLC

VARIABLES
    \* crc_calculator.py: one message run through the three entry points
    message_name, fields, pc, ordered, crc_extra, offsets,
    \* crc_calculator.py: the accumulator run over a byte string
    data, start_crc, pos, crc, whole_crc, string_crc,
    \* generator.py: parse_mavlink_xml_recursive over an include graph
    existing, mav_include, mav_message, mav_enum, parsed_files, stack, returned

msg_vars == <<message_name, fields, pc, ordered, crc_extra, offsets>>
acc_vars == <<data, start_crc, pos, crc, whole_crc, string_crc>>
parse_vars == <<existing, mav_include, mav_message, mav_enum, parsed_files, stack, returned>>
vars == <<msg_vars, acc_vars, parse_vars>>

---------------------------------------------------------------------------
(* Python values *)

Ok(v) == [val |-> v]
Raise(e) == [raised |-> e]
IsRaised(r) == "raised" \in DOMAIN r
None == [none |-> TRUE]

Lower == <<"a","b","c","d","e","f","g","h","i","j","k","l","m",
           "n","o","p","q","r","s","t","u","v","w","x","y","z">>
Upper == <<"A","B","C","D","E","F","G","H","I","J","K","L","M",
           "N","O","P","Q","R","S","T","U","V","W","X","Y","Z">>
Digits == <<"0","1","2","3","4","5","6","7","8","9">>

InSeq(seq, c) == \E i \in 1..Len(seq) : seq[i] = c
IndexOf(seq, c) == CHOOSE i \in 1..Len(seq) : seq[i] = c
CharsOf(seq) == {seq[i] : i \in 1..Len(seq)}

\* the code points of the characters the model writes
CodePoints ==
    [c \in CharsOf(Lower) |-> 96 + IndexOf(Lower, c)]
        @@ [c \in CharsOf(Upper) |-> 64 + IndexOf(Upper, c)]
        @@ [c \in CharsOf(Digits) |-> 47 + IndexOf(Digits, c)]
        @@ (" " :> 32) @@ ("+" :> 43) @@ ("-" :> 45)
        @@ ("[" :> 91) @@ ("]" :> 93) @@ ("_" :> 95)
        @@ ("\\x00" :> 0) @@ ("\\x01" :> 1) @@ ("\\x7f" :> 127)
        @@ ("\\x80" :> 128) @@ ("\\xff" :> 255)

\* ord(char): the code point of a character
ord(c) == CodePoints[c]

\* a & b and a ^ b on non-negative Python ints, bit by bit
RECURSIVE AndBits(_, _)
AndBits(a, b) ==
    IF a = 0 \/ b = 0 THEN 0
    ELSE ((a % 2) * (b % 2)) + (2 * AndBits(a \div 2, b \div 2))

RECURSIVE XorBits(_, _)
XorBits(a, b) ==
    IF a = 0 THEN b
    ELSE IF b = 0 THEN a
    ELSE (((a % 2) + (b % 2)) % 2) + (2 * XorBits(a \div 2, b \div 2))

\* the same, four bits at a time
AndNibbles == [a \in 0..15 |-> [b \in 0..15 |-> AndBits(a, b)]]
XorNibbles == [a \in 0..15 |-> [b \in 0..15 |-> XorBits(a, b)]]

RECURSIVE BitAnd(_, _)
BitAnd(a, b) ==
    IF a = 0 \/ b = 0 THEN 0
    ELSE AndNibbles[a % 16][b % 16] + (16 * BitAnd(a \div 16, b \div 16))

RECURSIVE BitXor(_, _)
BitXor(a, b) ==
    IF a = 0 THEN b
    ELSE IF b = 0 THEN a
    ELSE XorNibbles[a % 16][b % 16] + (16 * BitXor(a \div 16, b \div 16))

ShiftLeft(a, n) == a * (2 ^ n)
ShiftRight(a, n) == a \div (2 ^ n)

\* c in s
Contains(s, c) == \E i \in 1..Len(s) : s[i] = c

\* s.index(c): 0-based position of the first c, ValueError when there is none
str_index(s, c) ==
    IF Contains(s, c)
    THEN Ok((CHOOSE i \in 1..Len(s) : s[i] = c /\ \A j \in 1..(i - 1) : s[j] # c) - 1)
    ELSE Raise("ValueError")

\* s[start:end] for 0 <= start, 0 <= end
Slice(s, start, end) ==
    LET e == IF end < Len(s) THEN end ELSE Len(s)
    IN  IF start >= e THEN <<>> ELSE SubSeq(s, start + 1, e)

\* s.split(sep)[0]
SplitFirst(s, sep) ==
    IF Contains(s, sep) THEN Slice(s, 0, str_index(s, sep).val) ELSE s

IsDigit(c) == InSeq(Digits, c)

RECURSIVE LStrip(_)
LStrip(s) == IF s # <<>> /\ Head(s) = " " THEN LStrip(Tail(s)) ELSE s

RECURSIVE RStrip(_)
RStrip(s) ==
    IF s # <<>> /\ s[Len(s)] = " " THEN RStrip(SubSeq(s, 1, Len(s) - 1)) ELSE s

RECURSIVE DecimalValue(_, _)
DecimalValue(s, acc) ==
    IF s = <<>> THEN acc
    ELSE IF Head(s) = "_" THEN DecimalValue(Tail(s), acc)
    ELSE DecimalValue(Tail(s), (10 * acc) + (ord(Head(s)) - 48))

\* int(text): surrounding blanks, one sign, digits with single underscores
\* between them; anything else is a ValueError
int(text) ==
    LET t == RStrip(LStrip(text))
        signed == t # <<>> /\ t[1] \in {"+", "-"}
        body == IF signed THEN Tail(t) ELSE t
        wellFormed ==
            /\ body # <<>>
            /\ IsDigit(body[1])
            /\ IsDigit(body[Len(body)])
            /\ \A i \in 1..Len(body) : IsDigit(body[i]) \/ body[i] = "_"
            /\ \A i \in 1..(Len(body) - 1) : ~(body[i] = "_" /\ body[i + 1] = "_")
    IN  IF ~wellFormed THEN Raise("ValueError")
        ELSE IF signed /\ t[1] = "-" THEN Ok(0 - DecimalValue(body, 0))
        ELSE Ok(DecimalValue(body, 0))

---------------------------------------------------------------------------
(* crc_calculator.py: the accumulator *)

\* (each loop has the new crc in hand, a number, before it goes round again)
RECURSIVE crc16_mcrf4xx(_, _)
crc16_mcrf4xx(bytes, crc0) ==
    IF bytes = <<>> THEN crc0
    ELSE LET byte == Head(bytes)
             tmp1 == BitXor(byte, BitAnd(crc0, 255))
             tmp == BitAnd(BitXor(tmp1, ShiftLeft(tmp1, 4)), 255)
             crc1 == BitAnd(BitXor(BitXor(BitXor(ShiftRight(crc0, 8), ShiftLeft(tmp, 8)),
                                          ShiftLeft(tmp, 3)),
                                   ShiftRight(tmp, 4)),
                            65535)
         IN  IF crc1 \in Int THEN crc16_mcrf4xx(Tail(bytes), crc1) ELSE crc1

accumulate_byte_unmasked(byte0, crc0) ==
    LET byte == BitAnd(byte0, 255)
        tmp1 == BitXor(byte, BitAnd(crc0, 255))
        tmp == BitXor(tmp1, ShiftLeft(tmp1, 4))
    IN  BitAnd(BitXor(BitXor(BitXor(ShiftRight(crc0, 8), ShiftLeft(tmp, 8)),
                             ShiftLeft(tmp, 3)),
                      ShiftRight(tmp, 4)),
               65535)

accumulate_byte(byte0, crc0) ==
    LET byte == BitAnd(byte0, 255)
        tmp1 == BitXor(byte, BitAnd(crc0, 255))
        tmp == BitAnd(BitXor(tmp1, ShiftLeft(tmp1, 4)), 255)
    IN  BitAnd(BitXor(BitXor(BitXor(ShiftRight(crc0, 8), ShiftLeft(tmp, 8)),
                             ShiftLeft(tmp, 3)),
                      ShiftRight(tmp, 4)),
               65535)

RECURSIVE accumulate_string(_, _)
accumulate_string(s, crc0) ==
    IF s = <<>> THEN crc0
    ELSE LET crc1 == accumulate_byte(ord(Head(s)), crc0)
         IN  IF crc1 \in Int THEN accumulate_string(Tail(s), crc1) ELSE crc1

---------------------------------------------------------------------------
(* crc_calculator.py: type strings *)

int8_t == <<"i","n","t","8","_","t">>
uint8_t == <<"u","i","n","t","8","_","t">>
char == <<"c","h","a","r">>
int16_t == <<"i","n","t","1","6","_","t">>
uint16_t == <<"u","i","n","t","1","6","_","t">>
int32_t == <<"i","n","t","3","2","_","t">>
uint32_t == <<"u","i","n","t","3","2","_","t">>
float == <<"f","l","o","a","t">>
int64_t == <<"i","n","t","6","4","_","t">>
uint64_t == <<"u","i","n","t","6","4","_","t">>
double == <<"d","o","u","b","l","e">>
uint8_t_mavlink_version ==
    uint8_t \o <<"_","m","a","v","l","i","n","k","_","v","e","r","s","i","o","n">>

TYPE_BITS ==
    (int8_t :> 8) @@ (uint8_t :> 8) @@ (char :> 8) @@
    (int16_t :> 16) @@ (uint16_t :> 16) @@
    (int32_t :> 32) @@ (uint32_t :> 32) @@ (float :> 32) @@
    (int64_t :> 64) @@ (uint64_t :> 64) @@ (double :> 64)

\* d.get(key, default)
DictGet(d, key, default) == IF key \in DOMAIN d THEN d[key] ELSE default

get_base_type_no_alias(type_str) ==
    IF Contains(type_str, "[") THEN SplitFirst(type_str, "[") ELSE type_str

get_base_type(type_str) ==
    IF type_str = uint8_t_mavlink_version THEN uint8_t
    ELSE IF Contains(type_str, "[") THEN SplitFirst(type_str, "[")
    ELSE type_str

get_array_length_defaulting(type_str) ==
    IF Contains(type_str, "[")
    THEN LET end == str_index(type_str, "]")
             n == IF IsRaised(end) THEN end
                  ELSE int(Slice(type_str, str_index(type_str, "[").val + 1, end.val))
         IN  IF IsRaised(n) THEN Ok(1) ELSE n
    ELSE Ok(1)

get_array_length(type_str) ==
    IF Contains(type_str, "[")
    THEN LET start == str_index(type_str, "[").val + 1
             end == str_index(type_str, "]")
         IN  IF IsRaised(end) THEN end ELSE int(Slice(type_str, start, end.val))
    ELSE Ok(1)

get_type_bits(type_str) == DictGet(TYPE_BITS, get_base_type(type_str), 8)

get_type_size(type_str) == get_type_bits(type_str) \div 8

---------------------------------------------------------------------------
(* crc_calculator.py: field ordering, crc_extra, field offsets *)

Field(name, type, extension) ==
    [name |-> name, type |-> type, extension |-> extension]

is_extension(f) == f.extension
not_extension(f) == ~f.extension

\* one step of list.sort(key=get_type_bits, reverse=True): the element goes
\* behind every element already placed whose key is not smaller, so equal
\* keys keep the order of the list (the sort is stable also when reversed)
insert_before_equal_keys(placed, f) ==
    LET p == Cardinality({i \in 1..Len(placed) :
                            get_type_bits(placed[i].type) > get_type_bits(f.type)})
    IN  SubSeq(placed, 1, p) \o <<f>> \o SubSeq(placed, p + 1, Len(placed))

insert_by_type_bits(placed, f) ==
    LET p == Cardinality({i \in 1..Len(placed) :
                            get_type_bits(placed[i].type) >= get_type_bits(f.type)})
    IN  SubSeq(placed, 1, p) \o <<f>> \o SubSeq(placed, p + 1, Len(placed))

RECURSIVE sort_by_type_bits_reverse(_, _)
sort_by_type_bits_reverse(rest, placed) ==
    IF rest = <<>> THEN placed
    ELSE sort_by_type_bits_reverse(Tail(rest), insert_by_type_bits(placed, Head(rest)))

order_fields_unsorted(fs) ==
    SelectSeq(fs, not_extension) \o SelectSeq(fs, is_extension)

order_fields_for_serialization(fs) ==
    LET non_extension == SelectSeq(fs, not_extension)
        extension == SelectSeq(fs, is_extension)
    IN  sort_by_type_bits_reverse(non_extension, <<>>) \o extension

\* the loop of calculate_crc_extra over ordered_fields
RECURSIVE accumulate_fields_with_extensions(_, _)
accumulate_fields_with_extensions(ordered_fields, crc0) ==
    IF ordered_fields = <<>> THEN Ok(crc0)
    ELSE LET field == Head(ordered_fields)
             base_type == get_base_type(field.type)
             crc1 == accumulate_string(base_type \o <<" ">>, crc0)
             crc2 == accumulate_string(field.name \o <<" ">>, crc1)
             array_length == get_array_length(field.type)
         IN  IF IsRaised(array_length) THEN array_length
             ELSE LET crc3 == IF array_length.val > 1
                              THEN accumulate_byte(array_length.val, crc2) ELSE crc2
                  IN  IF crc3 \in Int
                      THEN accumulate_fields_with_extensions(Tail(ordered_fields), crc3)
                      ELSE Ok(crc3)

RECURSIVE accumulate_fields(_, _)
accumulate_fields(ordered_fields, crc0) ==
    IF ordered_fields = <<>> THEN Ok(crc0)
    ELSE LET field == Head(ordered_fields)
             base_type == get_base_type(field.type)
             crc1 == accumulate_string(base_type \o <<" ">>, crc0)
             crc2 == accumulate_string(field.name \o <<" ">>, crc1)
             array_length == get_array_length(field.type)
         IN  IF field.extension THEN accumulate_fields(Tail(ordered_fields), crc0)
             ELSE IF IsRaised(array_length) THEN array_length
             ELSE LET crc3 == IF array_length.val > 1
                              THEN accumulate_byte(array_length.val, crc2) ELSE crc2
                  IN  IF crc3 \in Int
                      THEN accumulate_fields(Tail(ordered_fields), crc3)
                      ELSE Ok(crc3)

calculate_crc_extra(name, fs) ==
    LET crc0 == accumulate_string(name \o <<" ">>, 65535)
        ordered_fields == order_fields_for_serialization(fs)
        r == accumulate_fields(ordered_fields, crc0)
    IN  IF IsRaised(r) THEN r
        ELSE Ok(BitXor(BitAnd(r.val, 255), ShiftRight(r.val, 8)))

\* the loop of calculate_field_offsets over ordered
RECURSIVE layout_fields_ignoring_length(_, _, _)
layout_fields_ignoring_length(ord_fields, offset, result) ==
    IF ord_fields = <<>> THEN Ok(result)
    ELSE LET field == Head(ord_fields)
             size == get_type_size(field.type)
             array_length == get_array_length(field.type)
         IN  IF IsRaised(array_length) THEN array_length
             ELSE layout_fields_ignoring_length(
                      Tail(ord_fields),
                      offset + size,
                      Append(result,
                             [name |-> field.name, type |-> field.type,
                              extension |-> field.extension,
                              offset |-> offset, size |-> size,
                              array_length |-> array_length.val,
                              base_type |-> get_base_type(field.type)]))

RECURSIVE layout_fields(_, _, _)
layout_fields(ord_fields, offset, result) ==
    IF ord_fields = <<>> THEN Ok(result)
    ELSE LET field == Head(ord_fields)
             base_type == get_base_type(field.type)
             size == get_type_size(field.type)
             array_length == get_array_length(field.type)
         IN  IF IsRaised(array_length) THEN array_length
             ELSE layout_fields(
                      Tail(ord_fields),
                      offset + (size * array_length.val),
                      Append(result,
                             [name |-> field.name, type |-> field.type,
                              extension |-> field.extension,
                              offset |-> offset, size |-> size,
                              array_length |-> array_length.val,
                              base_type |-> base_type]))

calculate_field_offsets(fs) ==
    layout_fields(order_fields_for_serialization(fs), 0, <<>>)

---------------------------------------------------------------------------
(* Inputs *)

MaxFields == 2

HEARTBEAT == <<"H","E","A","R","T","B","E","A","T">>

heartbeat_fields ==
    << Field(<<"t","y","p","e">>, uint8_t, FALSE),
       Field(<<"a","u","t","o","p","i","l","o","t">>, uint8_t, FALSE),
       Field(<<"b","a","s","e","_","m","o","d","e">>, uint8_t, FALSE),
       Field(<<"c","u","s","t","o","m","_","m","o","d","e">>, uint32_t, FALSE),
       Field(<<"s","y","s","t","e","m","_","s","t","a","t","u","s">>, uint8_t, FALSE),
       Field(<<"m","a","v","l","i","n","k","_","v","e","r","s","i","o","n">>,
             uint8_t_mavlink_version, FALSE) >>

MessageNames == { <<"M">> }
FieldNames == { <<"a">>, <<"b">> }

\* a base type outside TYPE_BITS
bool == <<"b","o","o","l">>

\* type strings that resolve to a length of at least 1
SizedTypes ==
    { uint8_t, uint32_t, bool, char \o <<"[","2","]">> }

\* type strings with a length of 0 or less, or with no length that can be read
OddTypes ==
    { char \o <<"[","0","]">>,
      char \o <<"[","-","1","]">>,
      char \o <<"[","x","]">>,
      char \o <<"[","]">>,
      char \o <<"[","2">> }

FieldUniverse ==
    { Field(n, t, e) : n \in FieldNames, t \in SizedTypes, e \in BOOLEAN }
        \cup { Field(<<"a">>, t, e) : t \in OddTypes, e \in BOOLEAN }

FieldLists == UNION { [1..k -> FieldUniverse] : k \in 0..MaxFields }

\* lists one field longer, over fewer fields: two of equal width, a wider
\* one, an array, and two extension fields
CoreFields ==
    { Field(<<"a">>, uint8_t, FALSE),
      Field(<<"b">>, uint8_t, FALSE),
      Field(<<"b">>, uint32_t, FALSE),
      Field(<<"a">>, char \o <<"[","2","]">>, FALSE),
      Field(<<"a">>, uint8_t, TRUE),
      Field(<<"a">>, char \o <<"[","x","]">>, TRUE) }

LongFieldLists == [1..(MaxFields + 1) -> CoreFields]

---------------------------------------------------------------------------
(* One message through order_fields_for_serialization, calculate_crc_extra *)
(* and calculate_field_offsets                                             *)

AccIdle ==
    /\ data = <<>> /\ start_crc = 0 /\ pos = 0 /\ crc = 0
    /\ whole_crc = None /\ string_crc = None

ParseIdle ==
    /\ existing = {} /\ mav_include = <<>> /\ mav_message = <<>> /\ mav_enum = <<>>
    /\ parsed_files = {} /\ stack = <<>> /\ returned = None

Init ==
    /\ \/ message_name = HEARTBEAT /\ fields = heartbeat_fields
       \/ message_name \in MessageNames /\ fields \in FieldLists \cup LongFieldLists
    /\ pc = "input"
    /\ ordered = None
    /\ crc_extra = None
    /\ offsets = None
    /\ AccIdle
    /\ ParseIdle

OrderFields ==
    /\ pc = "input"
    /\ ordered' = Ok(order_fields_for_serialization(fields))
    /\ pc' = "ordered"
    /\ UNCHANGED <<message_name, fields, crc_extra, offsets, acc_vars, parse_vars>>

CalcCrcExtra ==
    /\ pc = "input"
    /\ crc_extra' = calculate_crc_extra(message_name, fields)
    /\ pc' = "crc"
    /\ UNCHANGED <<message_name, fields, ordered, offsets, acc_vars, parse_vars>>

CalcFieldOffsets ==
    /\ pc = "input"
    /\ offsets' = calculate_field_offsets(fields)
    /\ pc' = "layout"
    /\ UNCHANGED <<message_name, fields, ordered, crc_extra, acc_vars, parse_vars>>

Next == OrderFields \/ CalcCrcExtra \/ CalcFieldOffsets

Spec == Init /\ [][Next]_vars

---------------------------------------------------------------------------
(* Properties of the message calculations *)

\* C1: calculate_crc_extra('HEARTBEAT', fields) over the six HEARTBEAT fields
\* in their declaration order returns exactly 50.
HeartbeatCrcExtraIs50 ==
    (pc = "crc" /\ message_name = HEARTBEAT /\ fields = heartbeat_fields)
        => crc_extra = Ok(50)

HeartbeatCrcExtraComputed ==
    /\ pc = "crc" /\ message_name = HEARTBEAT /\ fields = heartbeat_fields
    /\ ~IsRaised(crc_extra)

\* C2: calculate_crc_extra depends only on the name and the non-extension
\* fields: whatever extension fields the list holds, of whatever name and
\* type and at whatever position, the result is that of the list with every
\* extension field removed (so a list of extension fields only gives the
\* checksum of the message with no fields).
CrcExtraIgnoresExtensionFields ==
    pc = "crc" =>
        crc_extra = calculate_crc_extra(message_name, SelectSeq(fields, not_extension))

ExtensionBeforeCheckedField ==
    /\ pc = "crc"
    /\ Len(fields) >= 2
    /\ fields[1].extension
    /\ ~fields[2].extension
    /\ ~IsRaised(crc_extra)

Count(seq, x) == Cardinality({i \in 1..Len(seq) : seq[i] = x})

Range(seq) == {seq[i] : i \in 1..Len(seq)}

WidthsOf(seq) == {get_type_bits(seq[i].type) : i \in 1..Len(seq)}

NonExtensionOfWidth(seq, w) ==
    LET Keep(f) == ~f.extension /\ get_type_bits(f.type) = w
    IN  SelectSeq(seq, Keep)

\* C3: order_fields_for_serialization returns a permutation of its input:
\* the non-extension fields first, in non-increasing bit width, fields of
\* equal width in their input order, then the extension fields in their
\* input order.
OrderIsStableByWidthThenExtensions ==
    pc = "ordered" =>
        LET out == ordered.val
            n == Len(out)
        IN  /\ n = Len(fields)
            /\ \A f \in Range(fields) \cup Range(out) : Count(out, f) = Count(fields, f)
            /\ \A i, j \in 1..n : (i < j /\ out[i].extension) => out[j].extension
            /\ \A i, j \in 1..n :
                   (i < j /\ ~out[i].extension /\ ~out[j].extension)
                       => get_type_bits(out[i].type) >= get_type_bits(out[j].type)
            /\ \A w \in WidthsOf(fields) :
                   NonExtensionOfWidth(out, w) = NonExtensionOfWidth(fields, w)
            /\ SelectSeq(out, is_extension) = SelectSeq(fields, is_extension)

ReorderedWithEqualWidthPair ==
    /\ pc = "ordered"
    /\ message_name \in MessageNames
    /\ ordered.val # fields
    /\ \E i, j \in 1..Len(fields) :
           /\ i < j /\ fields[i] # fields[j]
           /\ ~fields[i].extension /\ ~fields[j].extension
           /\ get_type_bits(fields[i].type) = get_type_bits(fields[j].type)

IndexPermutations(n) == {p \in [1..n -> 1..n] : \A i, j \in 1..n : i # j => p[i] # p[j]}

Permuted(seq, p) == [i \in 1..Len(seq) |-> seq[p[i]]]

\* a permutation that leaves non-extension fields of equal width in the
\* order they had
KeepsEqualWidthOrder(seq, p) ==
    \A i, j \in 1..Len(seq) :
        (/\ i < j
         /\ ~seq[p[i]].extension /\ ~seq[p[j]].extension
         /\ get_type_bits(seq[p[i]].type) = get_type_bits(seq[p[j]].type))
            => p[i] < p[j]

RECURSIVE TotalSpan(_)
TotalSpan(seq) ==
    IF seq = <<>> THEN 0
    ELSE (get_type_size(Head(seq).type) * get_array_length(Head(seq).type).val)
             + TotalSpan(Tail(seq))

AllLengthsAtLeastOne(seq) ==
    \A i \in 1..Len(seq) :
        /\ ~IsRaised(get_array_length(seq[i].type))
        /\ get_array_length(seq[i].type).val >= 1

Descriptor(r) == Field(r.name, r.type, r.extension)

\* C5: when every field has an array length of at least 1, the output of
\* calculate_field_offsets is a gap-free chain in canonical order: the first
\* offset is 0, each later offset is the previous offset plus
\* size * array_length; no two byte ranges overlap, the end of the last
\* field is the sum of size * array_length over all fields, and every
\* extension field starts at or after the end of every non-extension field.
OffsetsFormGapFreeChain ==
    (pc = "layout" /\ AllLengthsAtLeastOne(fields)) =>
        /\ ~IsRaised(offsets)
        /\ LET out == offsets.val
               n == Len(out)
               Span(r) == r.size * r.array_length
           IN  /\ n = Len(fields)
               /\ [i \in 1..n |-> Descriptor(out[i])] = order_fields_for_serialization(fields)
               /\ n > 0 => out[1].offset = 0
               /\ \A i \in 2..n : out[i].offset = out[i - 1].offset + Span(out[i - 1])
               /\ \A i, j \in 1..n :
                      i # j => \/ out[i].offset + Span(out[i]) <= out[j].offset
                               \/ out[j].offset + Span(out[j]) <= out[i].offset
               /\ n > 0 => out[n].offset + Span(out[n]) = TotalSpan(fields)
               /\ \A i, j \in 1..n :
                      (out[i].extension /\ ~out[j].extension)
                          => out[i].offset >= out[j].offset + Span(out[j])

ArrayFieldLaidOutBeforeExtension ==
    /\ pc = "layout"
    /\ AllLengthsAtLeastOne(fields)
    /\ ~IsRaised(offsets)
    /\ \E i, j \in 1..Len(offsets.val) :
           /\ i < j
           /\ offsets.val[i].array_length > 1
           /\ ~offsets.val[i].extension
           /\ offsets.val[j].extension

UnknownBaseType(f) == get_base_type(f.type) \notin DOMAIN TYPE_BITS

\* C6: a field whose base type is not one of the eleven entries of TYPE_BITS
\* is surfaced as an error by calculate_crc_extra and by
\* calculate_field_offsets; it is never treated as an 8-bit type.
UnknownBaseTypeIsAnError ==
    /\ (pc = "crc" /\ \E i \in 1..Len(fields) :
                          ~fields[i].extension /\ UnknownBaseType(fields[i]))
           => IsRaised(crc_extra)
    /\ (pc = "layout" /\ \E i \in 1..Len(fields) : UnknownBaseType(fields[i]))
           => IsRaised(offsets)

NonPositiveLength(f) ==
    /\ ~IsRaised(get_array_length(f.type))
    /\ get_array_length(f.type).val <= 0

\* C7: a field whose type string resolves to an array length of 0 or less
\* makes calculate_crc_extra and calculate_field_offsets fail with an error.
NonPositiveLengthIsAnError ==
    /\ (pc = "crc" /\ \E i \in 1..Len(fields) :
                          ~fields[i].extension /\ NonPositiveLength(fields[i]))
           => IsRaised(crc_extra)
    /\ (pc = "layout" /\ \E i \in 1..Len(fields) : NonPositiveLength(fields[i]))
           => IsRaised(offsets)

\* a character that no decimal literal read by int() can hold
NotOfANumber(c) == ~IsDigit(c) /\ c \notin {"+", "-", "_", " "}

\* array syntax gone wrong: after the first "[" there is no "]", or nothing
\* between the two, or a character that is not of a number
MalformedArraySyntax(type_str) ==
    /\ Contains(type_str, "[")
    /\ LET open == CHOOSE i \in 1..Len(type_str) :
                       type_str[i] = "[" /\ \A k \in 1..(i - 1) : type_str[k] # "["
           closes == {j \in (open + 1)..Len(type_str) : type_str[j] = "]"}
       IN  \/ closes = {}
           \/ LET close == CHOOSE j \in closes : \A k \in closes : j <= k
              IN  \/ close = open + 1
                  \/ \E k \in (open + 1)..(close - 1) : NotOfANumber(type_str[k])

\* C8, as stated: a malformed array syntax in any field of the message makes
\* calculate_crc_extra and calculate_field_offsets end in an error, whatever
\* the position of the field.
MalformedFieldFailsBothCalculations ==
    /\ (pc = "crc" /\ \E i \in 1..Len(fields) : MalformedArraySyntax(fields[i].type))
           => IsRaised(crc_extra)
    /\ (pc = "layout" /\ \E i \in 1..Len(fields) : MalformedArraySyntax(fields[i].type))
           => IsRaised(offsets)

\* C8, amended: a malformed array syntax in any non-extension field makes
\* calculate_crc_extra end in an error, and in any field (extension or not)
\* makes calculate_field_offsets end in an error, whatever the position of
\* the field; the error is the whole result (no checksum, no partial layout).
MalformedFieldFailsTheCalculationsThatReadIt ==
    /\ (pc = "crc" /\ \E i \in 1..Len(fields) :
                          ~fields[i].extension /\ MalformedArraySyntax(fields[i].type))
           => crc_extra = Raise("ValueError")
    /\ (pc = "layout" /\ \E i \in 1..Len(fields) : MalformedArraySyntax(fields[i].type))
           => offsets = Raise("ValueError")

MalformedFieldBehindSoundField ==
    /\ pc = "crc"
    /\ Len(fields) >= 2
    /\ ~fields[1].extension /\ ~MalformedArraySyntax(fields[1].type)
    /\ ~IsRaised(get_array_length(fields[1].type))
    /\ get_type_bits(fields[1].type) > get_type_bits(fields[2].type)
    /\ ~fields[2].extension /\ MalformedArraySyntax(fields[2].type)
    /\ IsRaised(crc_extra)

---------------------------------------------------------------------------
(* The accumulator over a byte string: crc16_mcrf4xx in one call,          *)
(* accumulate_byte byte by byte, accumulate_string over the same values    *)

MaxData == 3

TestBytes == {0, 1, 32, 128, 255}

StartStates == {0, 1, 4660, 32768, 65535}

ByteStrings == UNION { [1..k -> TestBytes] : k \in 0..MaxData }

\* chr(b): the character with code point b
chr(b) == CHOOSE c \in DOMAIN CodePoints : CodePoints[c] = b

MsgIdle ==
    /\ message_name = <<>> /\ fields = <<>> /\ pc = "idle"
    /\ ordered = None /\ crc_extra = None /\ offsets = None

InitAccumulator ==
    /\ data \in ByteStrings
    /\ start_crc \in StartStates
    /\ pos = 0
    /\ crc = start_crc
    /\ whole_crc = None
    /\ string_crc = None
    /\ MsgIdle
    /\ ParseIdle

AccumulateNextByte ==
    /\ pos < Len(data)
    /\ crc' = accumulate_byte(data[pos + 1], crc)
    /\ pos' = pos + 1
    /\ UNCHANGED <<data, start_crc, whole_crc, string_crc, msg_vars, parse_vars>>

RunCrc16 ==
    /\ whole_crc = None
    /\ whole_crc' = Ok(crc16_mcrf4xx(data, start_crc))
    /\ UNCHANGED <<data, start_crc, pos, crc, string_crc, msg_vars, parse_vars>>

RunAccumulateString ==
    /\ string_crc = None
    /\ string_crc' = Ok(accumulate_string([i \in 1..Len(data) |-> chr(data[i])], start_crc))
    /\ UNCHANGED <<data, start_crc, pos, crc, whole_crc, msg_vars, parse_vars>>

NextAccumulator == AccumulateNextByte \/ RunCrc16 \/ RunAccumulateString

SpecAccumulator == InitAccumulator /\ [][NextAccumulator]_vars

\* C9: from every 16-bit start state, crc16_mcrf4xx over a byte string is
\* the left fold of accumulate_byte over it, and accumulate_string over the
\* same byte values gives the same state; every state on the way lies in
\* 0..65535, and the bytes still to come, processed from the state reached
\* so far, give the state of the whole string.
AccumulatorIsLeftFold ==
    /\ crc \in 0..65535
    /\ crc = crc16_mcrf4xx(SubSeq(data, 1, pos), start_crc)
    /\ crc16_mcrf4xx(SubSeq(data, pos + 1, Len(data)), crc)
           = crc16_mcrf4xx(data, start_crc)
    /\ whole_crc # None =>
           /\ whole_crc.val \in 0..65535
           /\ pos = Len(data) => whole_crc.val = crc
    /\ string_crc # None =>
           /\ string_crc.val \in 0..65535
           /\ pos = Len(data) => string_crc.val = crc
           /\ whole_crc # None => string_crc = whole_crc

FoldedHighBytes ==
    /\ Len(data) >= 2
    /\ pos = Len(data)
    /\ \E i \in 1..Len(data) : data[i] >= 128
    /\ whole_crc # None
    /\ string_crc # None

---------------------------------------------------------------------------
(* generator.py: parse_mavlink_xml_recursive over an include graph.  Each  *)
(* call is a frame of the stack: the resolved path, the messages and enums *)
(* dictionaries built so far and the position in mav.include.              *)

MaxIncludes == 2

Paths == {"root.xml", "f.xml", "g.xml"}

\* the path parse_mavlink_xml is called with
RootPath == "root.xml"

MessageIds == {1}
EnumNames == {"E"}

\* include lists: up to MaxIncludes different files
IncludeLists ==
    UNION { {l \in [1..k -> Paths] : \A i, j \in 1..k : i # j => l[i] # l[j]} :
              k \in 0..MaxIncludes }

\* {msg.id: msg for msg in mav.message}, {enum.name: enum for enum in mav.enum}
OwnMessages(path) == [k \in mav_message[path] |-> [id |-> k, file |-> path]]
OwnEnums(path) == [k \in mav_enum[path] |-> [name |-> k, file |-> path]]

\* for key, item in inc.items(): if key not in own: own[key] = item
MergeMissing(own, inc) ==
    [k \in DOMAIN own \cup DOMAIN inc |-> IF k \in DOMAIN own THEN own[k] ELSE inc[k]]

Frame(path) ==
    [xml_path |-> path, messages |-> OwnMessages(path),
     enums |-> OwnEnums(path), next |-> 1]

Top == stack[Len(stack)]
TopIncludes == mav_include[Top.xml_path]
Advance(frame) == [frame EXCEPT !.next = @ + 1]
ReplaceTop(frame) == [stack EXCEPT ![Len(stack)] = frame]

InitParse ==
    /\ existing \in {Paths, Paths \ {"g.xml"}}
    /\ mav_include \in [Paths -> IncludeLists]
    /\ mav_message \in [Paths -> SUBSET MessageIds]
    /\ mav_enum \in [Paths -> SUBSET EnumNames]
    /\ parsed_files = {}
    /\ stack = <<>>
    /\ returned = None
    /\ MsgIdle
    /\ AccIdle

\* parse_mavlink_xml_recursive(xml_path): parsed_files is None, a new set
ParseRoot ==
    /\ stack = <<>>
    /\ returned = None
    /\ parsed_files' = {RootPath}
    /\ stack' = <<Frame(RootPath)>>
    /\ UNCHANGED <<existing, mav_include, mav_message, mav_enum, returned,
                   msg_vars, acc_vars>>

\* an include whose path does not exist is passed over
IncludeMissing ==
    /\ stack # <<>>
    /\ Top.next <= Len(TopIncludes)
    /\ TopIncludes[Top.next] \notin existing
    /\ stack' = ReplaceTop(Advance(Top))
    /\ UNCHANGED <<existing, mav_include, mav_message, mav_enum, parsed_files,
                   returned, msg_vars, acc_vars>>

\* the call for a path already in parsed_files returns {}, {}: nothing to merge
IncludeAlreadyParsed ==
    /\ stack # <<>>
    /\ Top.next <= Len(TopIncludes)
    /\ TopIncludes[Top.next] \in existing
    /\ TopIncludes[Top.next] \in parsed_files
    /\ stack' = ReplaceTop([Advance(Top) EXCEPT
                               !.messages = MergeMissing(@, <<>>),
                               !.enums = MergeMissing(@, <<>>)])
    /\ UNCHANGED <<existing, mav_include, mav_message, mav_enum, parsed_files,
                   returned, msg_vars, acc_vars>>

\* the call for a new path: it is added to parsed_files and parsed
IncludeEnter ==
    /\ stack # <<>>
    /\ Top.next <= Len(TopIncludes)
    /\ TopIncludes[Top.next] \in existing
    /\ TopIncludes[Top.next] \notin parsed_files
    /\ parsed_files' = parsed_files \cup {TopIncludes[Top.next]}
    /\ stack' = Append(stack, Frame(TopIncludes[Top.next]))
    /\ UNCHANGED <<existing, mav_include, mav_message, mav_enum, returned,
                   msg_vars, acc_vars>>

\* return messages, enums: to the including call, which merges what it has
\* not got and goes on to its next include
ReturnToIncluder ==
    /\ Len(stack) >= 2
    /\ Top.next > Len(TopIncludes)
    /\ LET caller == stack[Len(stack) - 1]
       IN  stack' = Append(SubSeq(stack, 1, Len(stack) - 2),
                           [Advance(caller) EXCEPT
                               !.messages = MergeMissing(@, Top.messages),
                               !.enums = MergeMissing(@, Top.enums)])
    /\ UNCHANGED <<existing, mav_include, mav_message, mav_enum, parsed_files,
                   returned, msg_vars, acc_vars>>

\* return messages, enums: to parse_mavlink_xml
ReturnToCaller ==
    /\ Len(stack) = 1
    /\ Top.next > Len(TopIncludes)
    /\ returned' = Ok([messages |-> Top.messages, enums |-> Top.enums])
    /\ stack' = <<>>
    /\ UNCHANGED <<existing, mav_include, mav_message, mav_enum, parsed_files,
                   msg_vars, acc_vars>>

NextParse ==
    \/ ParseRoot
    \/ IncludeMissing
    \/ IncludeAlreadyParsed
    \/ IncludeEnter
    \/ ReturnToIncluder
    \/ ReturnToCaller

SpecParse == InitParse /\ [][NextParse]_vars

\* F includes G: G is one of the files F's include list names, and exists
Includes(F, G) == G \in existing /\ InSeq(mav_include[F], G)

RECURSIVE IncludedFrom(_)
IncludedFrom(S) ==
    LET T == S \cup {G \in Paths : \E F \in S : Includes(F, G)}
    IN  IF T = S THEN S ELSE IncludedFrom(T)

\* C10: whenever a file F includes a file G and both define the same message
\* id (or enum name), the result returned for the root does not hold G's
\* definition: the including file's definition takes precedence.  (Stated
\* for the files the root reaches, and for the pairs where G does not in its
\* turn include F: on an include cycle the two precedences contradict.)
IncludingFileTakesPrecedence ==
    returned # None =>
        \A F, G \in IncludedFrom({RootPath}) :
            (F # G /\ Includes(F, G) /\ F \notin IncludedFrom({G})) =>
                /\ \A k \in mav_message[F] \cap mav_message[G] :
                       returned.val.messages[k].file # G
                /\ \A k \in mav_enum[F] \cap mav_enum[G] :
                       returned.val.enums[k].file # G

===========================================================================
